---- MODULE Spec2Model ----
(***************************************************************************)
(* Model of the commit-to-post generators of test-img-blog-generator.      *)
(*                                                                         *)
(* Three scripts share one pipeline (git log -> [ignore] filter -> per     *)
(* commit diff -> image classification -> copy -> index.html):             *)
(*   "gallery"  src/generate-blog.js lines 1-280   (posts with images)     *)
(*   "blog"     src/generate-blog.js lines 282-673 (posts, Promise.all)    *)
(*   "flat"     src/unnamed/part_000               (one entry per image)   *)
(* Strings are sequences of one-character strings, so that toLowerCase,    *)
(* startsWith, split, extname, replace and trim are computed, not assumed. *)
(***************************************************************************)
EXTENDS Integers, Sequences, FiniteSets, TLC

(* ---------------------------- bounds ----------------------------------- *)
\* longest commit list the reader returns in the model
MaxCommits == 2
\* longest text handed to processContent in the model
MaxLen == 6
\* longest text handed to escapeHTML in the model
MaxEsc == 3
\* longest list of posts handed to generateHTML in the model
MaxPosts == 2

(* ------------------------- generic helpers ----------------------------- *)
Range(s) == {s[k] : k \in DOMAIN s}

RECURSIVE SelectIdx(_, _)
\* Array.prototype.filter: the positions from k on that the callback keeps
\* (keep[j] is the callback's answer for element j), in increasing order
SelectIdx(keep, k) ==
  IF k > Len(keep) THEN <<>>
  ELSE (IF keep[k] THEN <<k>> ELSE <<>>) \o SelectIdx(keep, k + 1)

RECURSIVE Flatten(_)
Flatten(ss) == IF ss = <<>> THEN <<>> ELSE Head(ss) \o Flatten(Tail(ss))

(* --------------------------- strings ----------------------------------- *)
\* String.prototype.toLowerCase on the letters the model uses
LowerChar(c) ==
  CASE c = "I" -> "i" [] c = "G" -> "g" [] c = "N" -> "n" [] c = "O" -> "o"
    [] c = "R" -> "r" [] c = "E" -> "e" [] c = "J" -> "j" [] c = "P" -> "p"
    [] c = "C" -> "c" [] c = "A" -> "a" [] c = "B" -> "b"
    [] OTHER -> c

toLowerCase(s) == [k \in DOMAIN s |-> LowerChar(s[k])]

startsWith(s, prefix) ==
  /\ Len(s) >= Len(prefix)
  /\ SubSeq(s, 1, Len(prefix)) = prefix

\* message.split('\n')[0]: the text before the first line break
FirstLine(s) ==
  IF \E k \in DOMAIN s : s[k] = "\n"
  THEN SubSeq(s, 1, (CHOOSE k \in DOMAIN s :
                       /\ s[k] = "\n"
                       /\ \A j \in 1..(k - 1) : s[j] # "\n") - 1)
  ELSE s

\* path.extname: from the last '.' of the basename to the end; '' when there
\* is no '.' or the only '.' is the first character of the basename
extname(p) ==
  LET slashes == {k \in DOMAIN p : p[k] = "/"}
      base    == IF slashes = {} THEN 1
                 ELSE (CHOOSE k \in slashes : \A j \in slashes : j <= k) + 1
      dots    == {k \in DOMAIN p : p[k] = "." /\ k > base}
  IN  IF dots = {} THEN <<>>
      ELSE SubSeq(p, CHOOSE k \in dots : \A j \in dots : j <= k, Len(p))

(* ------------------------- environment --------------------------------- *)
IgnoreMarker == <<"[", "i", "g", "n", "o", "r", "e", "]">>

\* commit messages the reader may return
MsgPlain  == <<"C", "a", "t", "\n", "\n", "b">>
MsgMarked == <<"[", "I", "g", "N", "o", "r", "e", "]", " ", "x">>
MsgSpaced == <<" ", "[", "i", "g", "n", "o", "r", "e", "]">>
Messages  == {MsgPlain, MsgMarked, MsgSpaced}

\* repository paths a diff may list
PathA == <<"a", ".", "p", "n", "g">>
PathB == <<"i", "/", "b", ".", "J", "P", "G">>
PathN == <<"n", ".", "t", "x", "t">>
ImagePaths == {PathA, PathB}

\* what git.diffSummary does for a commit: it rejects ("fail": a root commit
\* has no parent, or any other error) or resolves with the changed files
FileLists == {<<PathN>>, <<PathA>>, <<PathB, PathN, PathA>>}
DiffFail == [ok |-> FALSE, files |-> <<>>]
DiffOutcomes == {DiffFail} \cup {[ok |-> TRUE, files |-> f] : f \in FileLists}

\* the author name and the body the reader returns with each message
AuthorOf(m) ==
  IF m = MsgPlain THEN <<"A", "&", "B">>
  ELSE IF m = MsgSpaced THEN <<"<", "i", ">">>
  ELSE <<"x">>

BodyOf(m) ==
  IF m = MsgPlain THEN <<"b", "\n", "\n", "\"", "c", "'">>
  ELSE IF m = MsgSpaced THEN <<>>
  ELSE <<"x">>

\* the diff outcomes a commit comes with: every outcome for the plain
\* message, a diff that changes an image for the two others
DiffsOf(m) ==
  IF m = MsgPlain THEN DiffOutcomes ELSE {[ok |-> TRUE, files |-> <<PathA>>]}

Commits ==
  {[message |-> m, diff |-> d, author_name |-> AuthorOf(m), body |-> BodyOf(m)] :
     m \in Messages, d \in DiffOutcomes} \cap
  UNION {[message : {m}, diff : DiffsOf(m), author_name : {AuthorOf(m)},
          body : {BodyOf(m)}] : m \in Messages}

RECURSIVE SeqsUpTo(_, _)
SeqsUpTo(S, n) ==
  IF n = 0 THEN {<<>>}
  ELSE LET shorter == SeqsUpTo(S, n - 1)
       IN  shorter \cup {Append(s, x) : s \in {t \in shorter : Len(t) = n - 1}, x \in S}

\* a file of the working tree: absent, a readable image, or a file whose
\* header neither image-size nor exif-parser can read
FileStates == {"missing", "ok", "corrupt"}

Variants == {"gallery", "blog", "flat"}


(* ----------------------- per-commit functions -------------------------- *)
imageExtensions ==
  { <<".", "p", "n", "g">>, <<".", "j", "p", "g">>, <<".", "j", "p", "e", "g">>,
    <<".", "g", "i", "f">>, <<".", "w", "e", "b", "p">>, <<".", "s", "v", "g">>,
    <<".", "b", "m", "p">> }

isImage(file) == toLowerCase(extname(file)) \in imageExtensions

\* the commit filter of getCommits: true when the commit is dropped
isIgnored(commit) ==
  startsWith(toLowerCase(FirstLine(commit.message)), IgnoreMarker)

\* getCommitImages: the image paths of the diff in diff order; [] when the
\* diff rejects
getCommitImages(diff) ==
  IF ~diff.ok THEN <<>>
  ELSE LET keep == SelectIdx([j \in DOMAIN diff.files |-> isImage(diff.files[j])], 1)
       IN  [k \in DOMAIN keep |-> diff.files[keep[k]]]

NoCaption == "null"
DefaultSize == 800

\* what a readable file holds: its pixel size and its EXIF ImageDescription
\* (only the JPEG carries EXIF data)
TrueDimensions(p) ==
  IF p = PathA THEN [width |-> 640, height |-> 480]
  ELSE [width |-> 1024, height |-> 768]

ExifDescription(p) == IF p = PathB THEN "sunset" ELSE NoCaption

getImageCaption(d, p) ==
  IF d[p] = "missing" THEN NoCaption
  ELSE IF d[p] = "corrupt" THEN NoCaption
  ELSE ExifDescription(p)

\* getImageDimensions without the default square
getImageDimensionsZero(d, p) ==
  IF d[p] = "ok" THEN TrueDimensions(p) ELSE [width |-> 0, height |-> 0]

getImageDimensions(d, p) ==
  IF d[p] = "missing" THEN [width |-> DefaultSize, height |-> DefaultSize]
  ELSE IF d[p] = "corrupt" THEN [width |-> DefaultSize, height |-> DefaultSize]
  ELSE TrueDimensions(p)

\* the post the gallery variant pushes for commit number k of the log
GalleryPost(d, commit, k, imagePaths) ==
  [hash   |-> k,
   title  |-> FirstLine(commit.message),
   images |-> [j \in DOMAIN imagePaths |->
                 [path    |-> imagePaths[j],
                  caption |-> getImageCaption(d, imagePaths[j]),
                  width   |-> getImageDimensions(d, imagePaths[j]).width,
                  height  |-> getImageDimensions(d, imagePaths[j]).height]]]

\* the post the blog variant builds for commit number k of the log
BlogPost(commit, k, imagePaths) ==
  [hash    |-> k,
   author  |-> commit.author_name,
   title   |-> FirstLine(commit.message),
   content |-> IF commit.body # <<>> THEN commit.body ELSE FirstLine(commit.message),
   images  |-> imagePaths]

\* FlatEntries that keeps only the first image of a commit
FlatEntriesFirstOnly(d, commit, k, imagePaths) ==
  IF imagePaths = <<>> THEN <<>>
  ELSE <<[path    |-> imagePaths[1],
          hash    |-> k,
          title   |-> FirstLine(commit.message),
          caption |-> getImageCaption(d, imagePaths[1])]>>

\* the entries the flat variant pushes for commit number k of the log
FlatEntries(d, commit, k, imagePaths) ==
  [j \in DOMAIN imagePaths |->
     [path    |-> imagePaths[j],
      hash    |-> k,
      title   |-> FirstLine(commit.message),
      caption |-> getImageCaption(d, imagePaths[j])]]

\* GalleryPush without the `continue` on an empty image list
GalleryPushNoSkip(d, commit, k) ==
  <<GalleryPost(d, commit, k, getCommitImages(commit.diff))>>

\* one iteration of the for loop of the gallery variant: what it appends
GalleryPush(d, commit, k) ==
  LET imagePaths == getCommitImages(commit.diff)
  IN  IF Len(imagePaths) = 0 THEN <<>>
      ELSE <<GalleryPost(d, commit, k, imagePaths)>>

\* an assembly that pushes each value when its promise settles
PromiseAllBySettling(values, order) == [k \in DOMAIN order |-> values[order[k]]]

\* Promise.all: the settled values in the order of the input array
PromiseAll(values, order) == [k \in DOMAIN values |-> values[k]]

\* the image paths copyImagesToOutput walks through, in order
ImageRefs(v, res) ==
  IF v = "gallery"
  THEN Flatten([k \in DOMAIN res |->
                  [j \in DOMAIN res[k].images |-> res[k].images[j].path]])
  ELSE IF v = "blog"
  THEN Flatten([k \in DOMAIN res |-> res[k].images])
  ELSE [k \in DOMAIN res |-> res[k].path]

\* copyImagesToOutput on the first n references: the files it copies, in order
CopyPrefix(d, refs, n) ==
  LET there == SelectIdx([j \in 1..n |-> d[refs[j]] # "missing"], 1)
  IN  [k \in DOMAIN there |-> refs[there[k]]]


(* --------------------------- processContent ---------------------------- *)
RECURSIVE ReplaceAll(_, _, _)
\* str.replace(/c/g, by) for a one-character pattern
ReplaceAll(s, c, by) ==
  IF s = <<>> THEN <<>>
  ELSE (IF Head(s) = c THEN by ELSE <<Head(s)>>) \o ReplaceAll(Tail(s), c, by)

\* escapeHTML with the ampersand replaced last instead of first
escapeHTMLAmpLast(str) ==
  IF str = <<>> THEN <<>>
  ELSE LET s1 == ReplaceAll(str, "<", <<"&", "l", "t", ";">>)
           s2 == ReplaceAll(s1, ">", <<"&", "g", "t", ";">>)
           s3 == ReplaceAll(s2, "\"", <<"&", "q", "u", "o", "t", ";">>)
           s4 == ReplaceAll(s3, "'", <<"&", "#", "0", "3", "9", ";">>)
       IN  ReplaceAll(s4, "&", <<"&", "a", "m", "p", ";">>)

escapeHTML(str) ==
  IF str = <<>> THEN <<>>
  ELSE LET s1 == ReplaceAll(str, "&", <<"&", "a", "m", "p", ";">>)
           s2 == ReplaceAll(s1, "<", <<"&", "l", "t", ";">>)
           s3 == ReplaceAll(s2, ">", <<"&", "g", "t", ";">>)
           s4 == ReplaceAll(s3, "\"", <<"&", "q", "u", "o", "t", ";">>)
       IN  ReplaceAll(s4, "'", <<"&", "#", "0", "3", "9", ";">>)

\* the characters String.prototype.trim removes, among those of the model
WhiteSpace == {" ", "\n", "\t", "\r"}

RECURSIVE TrimStart(_)
TrimStart(s) ==
  IF s # <<>> /\ Head(s) \in WhiteSpace THEN TrimStart(Tail(s)) ELSE s

RECURSIVE TrimEnd(_)
TrimEnd(s) ==
  IF s # <<>> /\ s[Len(s)] \in WhiteSpace THEN TrimEnd(SubSeq(s, 1, Len(s) - 1)) ELSE s

trim(s) == TrimEnd(TrimStart(s))

\* the length of the run of line breaks that starts at position k
RECURSIVE BreakRun(_, _)
BreakRun(s, k) ==
  IF k <= Len(s) /\ s[k] = "\n" THEN 1 + BreakRun(s, k + 1) ELSE 0

\* fewest consecutive line breaks the pattern /\n\n+/ matches
ParagraphBreak == 2

RECURSIVE SplitBreaks(_, _, _)
\* content.split(/\n\n+/): scans from position k with the piece cur open; a
\* match takes the whole run of line breaks and closes the piece
SplitBreaks(s, k, cur) ==
  IF k > Len(s) THEN <<cur>>
  ELSE IF BreakRun(s, k) >= ParagraphBreak
       THEN <<cur>> \o SplitBreaks(s, k + BreakRun(s, k), <<>>)
       ELSE SplitBreaks(s, k + 1, Append(cur, s[k]))

\* the callback without the replacement of line breaks
ParagraphHTMLKeepBreaks(para) ==
  LET text == trim(para)
  IN  IF text = <<>> THEN <<>>
      ELSE <<"<", "p", ">">> \o escapeHTML(text) \o <<"<", "/", "p", ">">>

\* the callback without trim
ParagraphHTMLNoTrim(para) ==
  LET text == ReplaceAll(para, "\n", <<" ">>)
  IN  IF text = <<>> THEN <<>>
      ELSE <<"<", "p", ">">> \o escapeHTML(text) \o <<"<", "/", "p", ">">>

\* the callback of paragraphs.map
ParagraphHTML(para) ==
  LET text == trim(ReplaceAll(para, "\n", <<" ">>))
  IN  IF text = <<>> THEN <<>>
      ELSE <<"<", "p", ">">> \o escapeHTML(text) \o <<"<", "/", "p", ">">>

processContent(c) ==
  IF c = <<>> THEN <<>>
  ELSE LET paragraphs == SplitBreaks(c, 1, <<>>)
           mapped     == [k \in DOMAIN paragraphs |-> ParagraphHTML(paragraphs[k])]
           kept       == SelectIdx([j \in DOMAIN mapped |-> mapped[j] # <<>>], 1)
       IN  Flatten([k \in DOMAIN kept |-> mapped[kept[k]]])


(* ---------------------------- generateHTML ------------------------------ *)
\* the markup of one post, from generateHTML; the white space between tags,
\* the date span and the static attributes of <img> are left out
PostOpen ==
    <<"<", "a", "r", "t", "i", "c", "l", "e", " ", "c", "l", "a", "s", "s",
      "=", "\"", "p", "o", "s", "t", "\"", ">", "<", "h", "e", "a", "d",
      "e", "r", ">", "<", "h", "2", ">">>

PostAuthor ==
    <<"<", "/", "h", "2", ">", "<", "d", "i", "v", " ", "c", "l", "a", "s",
      "s", "=", "\"", "m", "e", "t", "a", "\"", ">", "<", "s", "p", "a",
      "n", " ", "c", "l", "a", "s", "s", "=", "\"", "a", "u", "t", "h",
      "o", "r", "\"", ">">>

PostCommit ==
    <<"<", "/", "s", "p", "a", "n", ">", "<", "s", "p", "a", "n", " ", "c",
      "l", "a", "s", "s", "=", "\"", "c", "o", "m", "m", "i", "t", "\"",
      ">", "#">>

PostContent ==
    <<"<", "/", "s", "p", "a", "n", ">", "<", "/", "d", "i", "v", ">", "<",
      "/", "h", "e", "a", "d", "e", "r", ">", "<", "d", "i", "v", " ", "c",
      "l", "a", "s", "s", "=", "\"", "c", "o", "n", "t", "e", "n", "t",
      "\"", ">">>

PostContentEnd ==
    <<"<", "/", "d", "i", "v", ">">>

GridOpen ==
    <<"<", "d", "i", "v", " ", "c", "l", "a", "s", "s", "=", "\"", "i",
      "m", "a", "g", "e", "-", "g", "r", "i", "d", "\"", ">">>

ItemOpen ==
    <<"<", "d", "i", "v", " ", "c", "l", "a", "s", "s", "=", "\"", "i",
      "m", "a", "g", "e", "-", "i", "t", "e", "m", "\"", ">", "<", "a",
      " ", "h", "r", "e", "f", "=", "\"">>

ItemTarget ==
    <<"\"", " ", "t", "a", "r", "g", "e", "t", "=", "\"", "_", "b", "l",
      "a", "n", "k", "\"", ">", "<", "i", "m", "g", " ", "s", "r", "c",
      "=", "\"">>

ItemClose ==
    <<"\"", " ", "/", ">", "<", "/", "a", ">", "<", "/", "d", "i", "v",
      ">">>

GridClose ==
    <<"<", "/", "d", "i", "v", ">">>

PostClose ==
    <<"<", "/", "a", "r", "t", "i", "c", "l", "e", ">">>

\* the document around the posts; the <head> with its style sheet and the
\* page header are constant text and left out
DocOpen ==
    <<"<", "!", "D", "O", "C", "T", "Y", "P", "E", " ", "h", "t", "m", "l",
      ">", "<", "h", "t", "m", "l", ">", "<", "b", "o", "d", "y", ">", "<",
      "m", "a", "i", "n", ">">>

DocFooter ==
    <<"<", "/", "m", "a", "i", "n", ">", "<", "f", "o", "o", "t", "e", "r",
      ">", "<", "p", ">", "G", "e", "n", "e", "r", "a", "t", "e", "d", " ",
      "f", "r", "o", "m", " ">>

DocCommit ==
    <<" ", "c", "o", "m", "m", "i", "t">>

DocClose ==
    <<"<", "/", "p", ">", "<", "/", "f", "o", "o", "t", "e", "r", ">", "<",
      "/", "b", "o", "d", "y", ">", "<", "/", "h", "t", "m", "l", ">">>

Digit(d) ==
  CASE d = 0 -> "0" [] d = 1 -> "1" [] d = 2 -> "2" [] d = 3 -> "3" [] d = 4 -> "4"
    [] d = 5 -> "5" [] d = 6 -> "6" [] d = 7 -> "7" [] d = 8 -> "8" [] d = 9 -> "9"

RECURSIVE NumberToString(_)
\* the decimal digits a template literal inserts for a number
NumberToString(n) ==
  IF n < 10 THEN <<Digit(n)>> ELSE NumberToString(n \div 10) \o <<Digit(n % 10)>>

RECURSIVE Join(_, _)
\* Array.prototype.join
Join(ss, sep) ==
  IF ss = <<>> THEN <<>>
  ELSE IF Len(ss) = 1 THEN ss[1]
  ELSE ss[1] \o sep \o Join(Tail(ss), sep)

\* one item of the image grid
ImageItemHTML(image) ==
  ItemOpen \o escapeHTML(image) \o ItemTarget \o escapeHTML(image) \o ItemClose

\* the callback of commits.map in generateHTML of the blog variant
PostHTML(commit) ==
  PostOpen \o escapeHTML(commit.title)
    \o PostAuthor \o escapeHTML(commit.author)
    \o PostCommit \o NumberToString(commit.hash)
    \o PostContent \o processContent(commit.content) \o PostContentEnd
    \o (IF Len(commit.images) > 0
        THEN GridOpen
               \o Join([j \in DOMAIN commit.images |-> ImageItemHTML(commit.images[j])], <<>>)
               \o GridClose
        ELSE <<>>)
    \o PostClose

\* generateHTML of the blog variant
generateHTML(commits) ==
  DocOpen \o Join([k \in DOMAIN commits |-> PostHTML(commits[k])], <<"\n">>)
    \o DocFooter \o NumberToString(Len(commits)) \o DocCommit
    \o (IF Len(commits) # 1 THEN <<"s">> ELSE <<>>)
    \o DocClose


\* ejs.render of template.ejs: a text that its template data determine
ejsRender(templateData) == <<templateData>>

\* the text main writes to dist/index.html
RenderIndex(v, res, dat) ==
  IF v = "blog" THEN generateHTML(res)
  ELSE IF v = "gallery"
  THEN ejsRender([commits |-> res,
                  avatar  |-> IF dat = "avatar_present" THEN "avatar" ELSE "null"])
  ELSE ejsRender([images        |-> res,
                  uniqueCommits |-> Cardinality({res[a].hash : a \in DOMAIN res})])

(* ------------------------------ state ---------------------------------- *)
VARIABLES
  variant,    \* which of the three scripts runs
  repo,       \* the commit history git.log reads, most recent first
  disk,       \* the working tree: state of each image path
  pc,         \* where main is
  data,       \* what loadConfig returned (gallery variant)
  log,        \* log.all
  filtered,   \* filteredCommits, as positions of log
  idx,        \* position of the for loop in filteredCommits
  slots,      \* blog variant: the values of the settled map() promises
  settled,    \* blog variant: the positions of filtered in settling order
  result,     \* what getCommits returned
  writes,     \* the files written below dist/, in the order written
  copied,     \* imagesCopied
  console,    \* the messages logged
  exitCode,   \* exit code of the process, NoExit while it runs
  index,      \* the text written to dist/index.html
  content,    \* text handed to processContent or escapeHTML
  html        \* what processContent or escapeHTML returned

pipeVars == <<variant, repo, disk, pc, data, log, filtered, idx, slots, settled,
              result, writes, copied, console, exitCode, index>>
textVars == <<content, html>>
vars == <<pipeVars, textVars>>

NoExit == -1
NoHtml == <<"?">>

Disks == [ImagePaths -> FileStates]

\* console messages
ErrFetching == <<"Error fetching commits">>
WarnDiff(k) == <<"Could not get diff for", k>>
WarnImage(p) == <<"Warning: Image not found", p>>
WarnAvatar == <<"Warning: Avatar file not found">>
ErrBuild == <<"Error building gallery.js">>
Generated == <<"generated at dist/index.html">>

\* files below dist/
GalleryJs == <<"g", "a", "l", "l", "e", "r", "y", ".", "j", "s">>
AvatarFile == <<"m", "e", ".", "p", "n", "g">>
IndexHtml == <<"i", "n", "d", "e", "x", ".", "h", "t", "m", "l">>

Init ==
  /\ variant \in Variants
  /\ repo \in SeqsUpTo(Commits, MaxCommits)
  /\ disk \in Disks
  /\ pc = IF variant = "gallery" THEN "config" ELSE "log"
  /\ data = "null"
  /\ log = <<>>
  /\ filtered = <<>>
  /\ idx = 1
  /\ slots = <<>>
  /\ settled = <<>>
  /\ result = <<>>
  /\ writes = <<>>
  /\ copied = 0
  /\ console = {}
  /\ exitCode = NoExit
  /\ index = NoHtml
  /\ content = <<>>
  /\ html = NoHtml

(* ----------------------------- getCommits ------------------------------ *)
\* loadConfig: config.json is absent, unparsable, or names an avatar that is
\* or is not in the working tree
LoadConfig ==
  /\ pc = "config"
  /\ \E file \in {"absent", "invalid", "avatar_present", "avatar_missing"} :
       data' = IF file \in {"absent", "invalid"} THEN "null" ELSE file
  /\ pc' = "log"
  /\ UNCHANGED <<variant, repo, disk, log, filtered, idx, slots, settled, result,
                 writes, copied, console, exitCode, textVars, index>>

\* a catch block that logs and returns an empty list instead of exiting
GitLogFailReturnsEmpty ==
  /\ pc = "log"
  /\ console' = console \cup {ErrFetching}
  /\ pc' = "assembled"
  /\ UNCHANGED <<variant, repo, disk, data, log, filtered, idx, slots, settled,
                 result, writes, copied, exitCode, textVars, index>>

\* git.log rejects: the catch block of getCommits logs and exits
GitLogFail ==
  /\ pc = "log"
  /\ console' = console \cup {ErrFetching}
  /\ exitCode' = 1
  /\ pc' = "exited"
  /\ UNCHANGED <<variant, repo, disk, data, log, filtered, idx, slots, settled,
                 result, writes, copied, textVars, index>>

\* git.log resolves: the commits are filtered; the sequential variants enter
\* their for loop, the blog variant starts one diff per remaining commit
GitLog ==
  /\ pc = "log"
  /\ log' = repo
  /\ filtered' = SelectIdx([j \in DOMAIN repo |-> ~isIgnored(repo[j])], 1)
  /\ pc' = IF filtered' = <<>> THEN "assembled"
           ELSE IF variant = "blog" THEN "fetching" ELSE "loop"
  /\ UNCHANGED <<variant, repo, disk, data, idx, slots, settled, result, writes,
                 copied, console, exitCode, textVars, index>>

DiffWarning(k) == IF log[k].diff.ok THEN {} ELSE {WarnDiff(k)}

\* the for loop with a getCommitImages that lets the rejection through: a
\* failed diff lands in the catch block of getCommits
LoopGalleryDiffThrows ==
  /\ pc = "loop"
  /\ variant = "gallery"
  /\ LET k == filtered[idx]
     IN  IF log[k].diff.ok
         THEN /\ result' = result \o GalleryPush(disk, log[k], k)
              /\ idx' = idx + 1
              /\ pc' = IF idx = Len(filtered) THEN "assembled" ELSE "loop"
              /\ UNCHANGED <<console, exitCode>>
         ELSE /\ console' = console \cup {ErrFetching}
              /\ exitCode' = 1
              /\ pc' = "exited"
              /\ UNCHANGED <<result, idx>>
  /\ UNCHANGED <<variant, repo, disk, data, log, filtered, slots, settled, writes,
                 copied, textVars, index>>

\* one iteration of the for loop of the gallery variant
LoopGallery ==
  /\ pc = "loop"
  /\ variant = "gallery"
  /\ LET k == filtered[idx]
     IN  /\ result' = result \o GalleryPush(disk, log[k], k)
         /\ console' = console \cup DiffWarning(k)
  /\ idx' = idx + 1
  /\ pc' = IF idx = Len(filtered) THEN "assembled" ELSE "loop"
  /\ UNCHANGED <<variant, repo, disk, data, log, filtered, slots, settled, writes,
                 copied, exitCode, textVars, index>>

\* a for loop that copies the images of each commit as it finds them
LoopFlatCopying ==
  /\ pc = "loop"
  /\ variant = "flat"
  /\ LET k == filtered[idx]
         imagePaths == getCommitImages(log[k].diff)
     IN  /\ result' = result \o FlatEntries(disk, log[k], k, imagePaths)
         /\ writes' = writes \o CopyPrefix(disk, imagePaths, Len(imagePaths))
         /\ console' = console \cup DiffWarning(k)
  /\ idx' = idx + 1
  /\ pc' = IF idx = Len(filtered) THEN "assembled" ELSE "loop"
  /\ UNCHANGED <<variant, repo, disk, data, log, filtered, slots, settled,
                 copied, exitCode, textVars, index>>

\* one iteration of the for loop of the flat variant
LoopFlat ==
  /\ pc = "loop"
  /\ variant = "flat"
  /\ LET k == filtered[idx]
     IN  /\ result' = result \o
                        FlatEntries(disk, log[k], k, getCommitImages(log[k].diff))
         /\ console' = console \cup DiffWarning(k)
  /\ idx' = idx + 1
  /\ pc' = IF idx = Len(filtered) THEN "assembled" ELSE "loop"
  /\ UNCHANGED <<variant, repo, disk, data, log, filtered, slots, settled, writes,
                 copied, exitCode, textVars, index>>

\* callbacks that push their post onto the result as their diff settles
SettleDiffPush ==
  /\ pc = "fetching"
  /\ \E j \in DOMAIN filtered \ DOMAIN slots :
       LET k == filtered[j]
       IN  /\ slots' = (j :> BlogPost(log[k], k, getCommitImages(log[k].diff)))
                         @@ slots
           /\ settled' = Append(settled, j)
           /\ result' = Append(result, slots'[j])
           /\ console' = console \cup DiffWarning(k)
  /\ pc' = IF DOMAIN slots' = DOMAIN filtered THEN "assembled" ELSE pc
  /\ UNCHANGED <<variant, repo, disk, data, log, filtered, idx, writes, copied,
                 exitCode, textVars, index>>

\* blog variant: the diff of one pending commit settles, in any order; when
\* the last one has settled Promise.all resolves and getCommits returns
SettleDiff ==
  /\ pc = "fetching"
  /\ \E j \in DOMAIN filtered \ DOMAIN slots :
       LET k == filtered[j]
       IN  /\ slots' = (j :> BlogPost(log[k], k, getCommitImages(log[k].diff)))
                         @@ slots
           /\ settled' = Append(settled, j)
           /\ console' = console \cup DiffWarning(k)
  /\ IF DOMAIN slots' = DOMAIN filtered
     THEN /\ result' = PromiseAll(slots', settled')
          /\ pc' = "assembled"
     ELSE UNCHANGED <<result, pc>>
  /\ UNCHANGED <<variant, repo, disk, data, log, filtered, idx, writes, copied,
                 exitCode, textVars, index>>


(* -------------------------------- main --------------------------------- *)
\* a copyImagesToOutput that ends the process at a missing source file
CopyImagesMissingFatal ==
  /\ pc = "copy"
  /\ LET refs == ImageRefs(variant, result)
         done == CopyPrefix(disk, refs, Len(refs))
         gone == {q \in Range(refs) : disk[q] = "missing"}
     IN  /\ writes' = writes \o done
         /\ copied' = Len(done)
         /\ console' = console \cup {WarnImage(p) : p \in gone}
         /\ exitCode' = IF gone = {} THEN exitCode ELSE 1
         /\ pc' = IF gone # {} THEN "exited"
                  ELSE IF variant = "gallery" THEN "avatar" ELSE "html"
  /\ UNCHANGED <<variant, repo, disk, data, log, filtered, idx, slots, settled,
                 result, textVars, index>>

\* copyImagesToOutput runs to its end: every reference whose source exists
\* is copied and counted, the others are logged
CopyImages ==
  /\ pc = "copy"
  /\ LET refs == ImageRefs(variant, result)
         done == CopyPrefix(disk, refs, Len(refs))
     IN  /\ writes' = writes \o done
         /\ copied' = Len(done)
         /\ console' = console \cup
                         {WarnImage(p) : p \in {q \in Range(refs) : disk[q] = "missing"}}
  /\ pc' = IF variant = "gallery" THEN "avatar" ELSE "html"
  /\ UNCHANGED <<variant, repo, disk, data, log, filtered, idx, slots, settled,
                 result, exitCode, textVars, index>>

\* mkdirSync or copyFileSync throws at reference n + 1: the rejection of
\* main() is not handled and the process ends with exit code 1
CopyImagesThrows ==
  /\ pc = "copy"
  /\ LET refs == ImageRefs(variant, result)
     IN  \E n \in 0..(Len(refs) - 1) :
           /\ writes' = writes \o CopyPrefix(disk, refs, n)
           /\ console' = console \cup
                {WarnImage(p) : p \in {q \in Range(SubSeq(refs, 1, n)) : disk[q] = "missing"}}
  /\ exitCode' = 1
  /\ pc' = "crashed"
  /\ UNCHANGED <<variant, repo, disk, data, log, filtered, idx, slots, settled,
                 result, copied, textVars, index>>

\* fs.mkdirSync(OUTPUT_DIR) after getCommits has returned
MkOutDir ==
  /\ pc = "assembled"
  /\ pc' = IF variant = "gallery" THEN "build" ELSE "copy"
  /\ UNCHANGED <<variant, repo, disk, data, log, filtered, idx, slots, settled,
                 result, writes, copied, console, exitCode, textVars, index>>

\* buildGalleryJS: esbuild writes dist/gallery.js
BuildGalleryJS ==
  /\ pc = "build"
  /\ writes' = Append(writes, GalleryJs)
  /\ pc' = "copy"
  /\ UNCHANGED <<variant, repo, disk, data, log, filtered, idx, slots, settled,
                 result, copied, console, exitCode, textVars, index>>

\* buildGalleryJS: esbuild rejects, the catch block logs and exits
BuildGalleryJSFails ==
  /\ pc = "build"
  /\ console' = console \cup {ErrBuild}
  /\ exitCode' = 1
  /\ pc' = "exited"
  /\ UNCHANGED <<variant, repo, disk, data, log, filtered, idx, slots, settled,
                 result, writes, copied, textVars, index>>

\* the avatar block of main: copies the avatar when config.json names one
\* and the file exists
CopyAvatar ==
  /\ pc = "avatar"
  /\ writes' = IF data = "avatar_present" THEN Append(writes, AvatarFile) ELSE writes
  /\ pc' = "html"
  /\ UNCHANGED <<variant, repo, disk, data, log, filtered, idx, slots, settled,
                 result, copied, console, exitCode, textVars, index>>

\* generateHTML and fs.writeFileSync of index.html; main returns and the
\* process ends with exit code 0
WriteIndex ==
  /\ pc = "html"
  /\ index' = RenderIndex(variant, result, data)
  /\ writes' = Append(writes, IndexHtml)
  /\ console' = console \cup {Generated} \cup
                  (IF data = "avatar_missing" THEN {WarnAvatar} ELSE {})
  /\ exitCode' = 0
  /\ pc' = "done"
  /\ UNCHANGED <<variant, repo, disk, data, log, filtered, idx, slots, settled,
                 result, copied, textVars>>

\* a write below dist/ throws (mkdirSync of dist, the avatar copy, or
\* writeFileSync of index.html): unhandled rejection of main(), exit code 1
WriteThrows ==
  /\ \/ pc = "assembled"
     \/ pc = "avatar" /\ data = "avatar_present"
     \/ pc = "html"
  /\ console' = IF pc = "html" /\ data = "avatar_missing"
                THEN console \cup {WarnAvatar} ELSE console
  /\ exitCode' = 1
  /\ pc' = "crashed"
  /\ UNCHANGED <<variant, repo, disk, data, log, filtered, idx, slots, settled,
                 result, writes, copied, textVars, index>>

Next ==
  \/ LoadConfig
  \/ GitLogFail
  \/ GitLog
  \/ LoopGallery
  \/ LoopFlat
  \/ SettleDiff
  \/ MkOutDir
  \/ BuildGalleryJS
  \/ BuildGalleryJSFails
  \/ CopyImages
  \/ CopyImagesThrows
  \/ CopyAvatar
  \/ WriteIndex
  \/ WriteThrows

Spec == Init /\ [][Next]_vars

TypeOK ==
  /\ variant \in Variants
  /\ pc \in {"config", "log", "loop", "fetching", "assembled", "build", "copy",
             "avatar", "html", "done", "exited", "crashed"}
  /\ exitCode \in {NoExit, 0, 1}
  /\ copied \in 0..Len(writes)


(* ------------------------- processContent specification ---------------- *)
\* the texts of the model
Alphabet == {"A", "B", "C", " ", "\n"}

InitText ==
  /\ variant = "blog"
  /\ repo = <<>>
  /\ disk = [p \in ImagePaths |-> "missing"]
  /\ pc = "render"
  /\ data = "null"
  /\ log = <<>>
  /\ filtered = <<>>
  /\ idx = 1
  /\ slots = <<>>
  /\ settled = <<>>
  /\ result = <<>>
  /\ writes = <<>>
  /\ copied = 0
  /\ console = {}
  /\ exitCode = NoExit
  /\ index = NoHtml
  /\ content \in SeqsUpTo(Alphabet, MaxLen)
  /\ html = NoHtml

\* generateHTML renders the content of one post
ProcessContent ==
  /\ pc = "render"
  /\ html' = processContent(content)
  /\ pc' = "rendered"
  /\ UNCHANGED <<variant, repo, disk, data, log, filtered, idx, slots, settled,
                 result, writes, copied, console, exitCode, content, index>>

NextText == ProcessContent

SpecText == InitText /\ [][NextText]_vars


(* ======================= properties of getCommits ====================== *)
\* getCommits has returned its array to main
Returned == pc \in {"assembled", "build", "copy", "avatar", "html", "done", "crashed"}
            \/ (pc = "exited" /\ ErrBuild \in console)

\* the hashes of the entries of a sequence of posts or image entries
Hashes(res) == {res[a].hash : a \in DOMAIN res}

\* every entry getCommits has produced so far, settled promises included
Produced == Hashes(result) \cup {slots[j].hash : j \in DOMAIN slots}

\* the title begins with the marker in any letter case, after any leading
\* whitespace
TitleHasMarker(commit) ==
  startsWith(toLowerCase(TrimStart(FirstLine(commit.message))), IgnoreMarker)

\* the changed files of the commit include an image (the diff succeeded)
ChangesImage(commit) ==
  /\ commit.diff.ok
  /\ \E f \in Range(commit.diff.files) : toLowerCase(extname(f)) \in imageExtensions

\* C1: a commit whose title begins with '[ignore]' in any letter case, with
\* or without whitespace before the marker, contributes no post and no image
\* entry to the result of getCommits, in all three variants.
C1_MarkedCommitsAbsent ==
  \A k \in DOMAIN log : TitleHasMarker(log[k]) => k \notin Produced

C3_LogOrderPreserved ==
  \A a, b \in DOMAIN result :
    a < b => IF variant = "flat"
             THEN result[a].hash <= result[b].hash
             ELSE result[a].hash < result[b].hash

\* the blog variant returned two posts whose diffs settled in reverse order
C3_Witness ==
  /\ variant = "blog"
  /\ Returned
  /\ Len(result) >= 2
  /\ settled[1] > settled[2]

\* the entries getCommits owes to commit k of the log, from that commit and
\* the working tree alone
EntriesOf(k) ==
  LET files  == IF log[k].diff.ok THEN log[k].diff.files ELSE <<>>
      keep   == SelectIdx([j \in DOMAIN files |-> toLowerCase(extname(files[j])) \in imageExtensions], 1)
      images == [j \in DOMAIN keep |-> files[keep[j]]]
  IN  IF variant = "blog" THEN <<BlogPost(log[k], k, images)>>
      ELSE IF variant = "flat" THEN FlatEntries(disk, log[k], k, images)
      ELSE IF images = <<>> THEN <<>>
      ELSE <<GalleryPost(disk, log[k], k, images)>>

\* C4: a diff that fails yields an empty image list for its commit, never
\* reaches the catch block of getCommits (the run is not aborted), and the
\* entries of every commit are those the commit alone determines.
C4_DiffFailureIsolated ==
  /\ ErrFetching \in console => log = <<>> /\ filtered = <<>>
  /\ \A k \in DOMAIN log :
       WarnDiff(k) \in console => \A a \in DOMAIN result :
         result[a].hash = k => variant = "blog" /\ result[a].images = <<>>
  /\ Returned => result = Flatten([j \in DOMAIN filtered |-> EntriesOf(filtered[j])])

\* a finished run in which one diff failed and another commit has an entry
C4_Witness ==
  /\ pc = "done"
  /\ \E k \in DOMAIN log : WarnDiff(k) \in console
  /\ \E k \in DOMAIN log : ChangesImage(log[k]) /\ k \in Hashes(result)

\* C5: when git.log fails the cause is logged, the process exits with code 1
\* and nothing is ever written below dist/ (no image, no index.html).
C5_LogFailureIsFatal ==
  /\ ErrFetching \in console =>
       /\ pc = "exited"
       /\ exitCode = 1
       /\ writes = <<>>
       /\ result = <<>>
  /\ pc = "exited" /\ ErrBuild \notin console => ErrFetching \in console

\* git.log failed on a repository whose commits do change images
C5_Witness ==
  /\ pc = "exited"
  /\ ErrFetching \in console
  /\ \E k \in DOMAIN repo : ChangesImage(repo[k]) /\ ~TitleHasMarker(repo[k])


(* ========================= properties of main ========================== *)
\* the run ended through a failed write below dist/
WriteFailed == pc = "crashed"

\* C6: the exit code is 1 only when git.log failed or the output could not
\* be written (esbuild's bundle, dist/, an image, the avatar, index.html);
\* every run that ends otherwise ends with exit code 0, whatever was skipped.
C6_ExitCode ==
  /\ exitCode = 1 => ErrFetching \in console \/ ErrBuild \in console \/ WriteFailed
  /\ pc = "done" <=> exitCode = 0
  /\ pc \in {"exited", "crashed"} <=> exitCode = 1

\* a run that met a failed diff, a missing image and a missing avatar and
\* still ended with exit code 0
C6_Witness ==
  /\ exitCode = 0
  /\ data = "avatar_missing"
  /\ \E k \in DOMAIN log : WarnDiff(k) \in console
  /\ \E p \in ImagePaths : WarnImage(p) \in console

\* copyImagesToOutput has run to its end
CopyDone == pc \in {"avatar", "html", "done"} \/ (pc = "crashed" /\ copied > 0)

\* the references of the result to image path p
RefsTo(p) == {a \in DOMAIN ImageRefs(variant, result) : ImageRefs(variant, result)[a] = p}

\* C7: an image whose file is missing from the working tree gets width 800,
\* height 800 and no caption, is neither copied nor counted by
\* copyImagesToOutput, and the run still writes index.html last and ends with
\* exit code 0.
C7_MissingImage ==
  \A p \in ImagePaths : disk[p] = "missing" =>
    /\ variant = "gallery" =>
         \A a \in DOMAIN result : \A j \in DOMAIN result[a].images :
           result[a].images[j].path = p =>
             /\ result[a].images[j].width = 800
             /\ result[a].images[j].height = 800
             /\ result[a].images[j].caption = NoCaption
    /\ variant = "flat" =>
         \A a \in DOMAIN result : result[a].path = p => result[a].caption = NoCaption
    /\ p \notin Range(writes)
    /\ CopyDone =>
         copied = Cardinality(UNION {RefsTo(q) : q \in {r \in ImagePaths : disk[r] # "missing"}})
    /\ pc = "done" =>
         /\ writes[Len(writes)] = IndexHtml
         /\ exitCode = 0

\* a finished gallery run whose result refers to a missing and to an existing
\* image
C7_Witness ==
  /\ variant = "gallery"
  /\ pc = "done"
  /\ \E p \in ImagePaths : disk[p] = "missing" /\ RefsTo(p) # {}
  /\ copied > 0

\* the commits of the log that qualify: not marked and with a changed image
Qualifying == {k \in DOMAIN log : ~TitleHasMarker(log[k]) /\ ChangesImage(log[k])}

\* the image changes of commit k
ImageChanges(k) ==
  {j \in DOMAIN log[k].diff.files : toLowerCase(extname(log[k].diff.files[j])) \in imageExtensions}

RECURSIVE Sum(_, _)
Sum(f, S) == IF S = {} THEN 0 ELSE LET x == CHOOSE y \in S : TRUE
                                    IN  f[x] + Sum(f, S \ {x})

TotalChanges(S) == Sum([k \in S |-> Cardinality(ImageChanges(k))], S)

Passing == {k \in DOMAIN log : ~isIgnored(log[k])}

RECURSIVE ParseParagraphs(_)
\* the texts between <p> and </p> of a rendered content, in order
ParseParagraphs(h) ==
  IF Len(h) < 7 THEN <<>>
  ELSE LET close == CHOOSE k \in 4..Len(h) :
                      /\ h[k] = "<"
                      /\ \A j \in 4..(k - 1) : h[j] # "<"
       IN  <<SubSeq(h, 4, close - 1)>> \o ParseParagraphs(SubSeq(h, close + 4, Len(h)))

\* position k of text s lies in a run of two or more consecutive line breaks
InBreakRun(s, k) ==
  /\ s[k] = "\n"
  /\ \/ k > 1 /\ s[k - 1] = "\n"
     \/ k < Len(s) /\ s[k + 1] = "\n"

\* position k of text s holds a visible character
Visible(s, k) == s[k] \notin {" ", "\n"}

\* the visible positions a and b of s are in the same paragraph: no run of
\* two or more line breaks lies between them
SameParagraph(s, a, b) == \A k \in a..b : ~InBreakRun(s, k)

\* the first visible positions of the paragraphs of s
ParagraphStarts(s) ==
  {a \in DOMAIN s : Visible(s, a) /\ \A b \in 1..(a - 1) :
                                       Visible(s, b) => ~SameParagraph(s, b, a)}

\* the paragraph of s that starts at visible position a: up to the last
\* visible position of the same paragraph, each line break read as a space
ParagraphAt(s, a) ==
  LET last == CHOOSE b \in a..Len(s) :
                /\ Visible(s, b) /\ SameParagraph(s, a, b)
                /\ \A c \in (b + 1)..Len(s) : Visible(s, c) => ~SameParagraph(s, a, c)
  IN  [k \in 1..(last - a + 1) |-> IF s[a + k - 1] = "\n" THEN " " ELSE s[a + k - 1]]

RECURSIVE Ascending(_)
\* the elements of a finite set of numbers in increasing order
Ascending(S) ==
  IF S = {} THEN <<>>
  ELSE LET m == CHOOSE x \in S : \A y \in S : x <= y
       IN  <<m>> \o Ascending(S \ {m})

ExpectedParagraphs(s) ==
  LET starts == Ascending(ParagraphStarts(s))
  IN  [k \in DOMAIN starts |-> ParagraphAt(s, starts[k])]

TextExample == <<"A", "\n", "\n", "B", "\n", "C">>

\* C9: the paragraphs processContent renders are the stretches of the text
\* between runs of two or more line breaks, in order, with each single line
\* break turned into one space, trimmed, the empty ones left out; the text
\* "A\n\nB\nC" gives the two paragraphs "A" and "B C".
C9_Paragraphs ==
  pc = "rendered" =>
    /\ ParseParagraphs(html) = ExpectedParagraphs(content)
    /\ content = TextExample => html = <<"<", "p", ">", "A", "<", "/", "p", ">",
                                         "<", "p", ">", "B", " ", "C", "<", "/", "p", ">">>

\* the example text has been rendered
C9_Witness ==
  /\ pc = "rendered"
  /\ content = TextExample
  /\ Len(ParseParagraphs(html)) = 2

\* the text has no run of two or more consecutive line breaks
NoParagraphBreak(s) == \A k \in 1..(Len(s) - 1) : ~(s[k] = "\n" /\ s[k + 1] = "\n")

\* the text with every line break replaced by one space
BreaksAsSpaces(s) == [k \in DOMAIN s |-> IF s[k] = "\n" THEN " " ELSE s[k]]

\* C10 as stated: every text without a run of two or more line breaks is
\* rendered as exactly one paragraph, its line breaks replaced by spaces.
C10_OneParagraphAsStated ==
  pc = "rendered" /\ NoParagraphBreak(content) =>
    /\ Len(ParseParagraphs(html)) = 1
    /\ "\n" \notin Range(ParseParagraphs(html)[1])

\* C10 amended: a text without a run of two or more line breaks that has a
\* visible character is rendered as exactly one paragraph: the text from
\* its first to its last visible character with every line break replaced
\* by one space; a text with no visible character is rendered as nothing.
C10_OneParagraph ==
  pc = "rendered" /\ NoParagraphBreak(content) =>
    IF \E k \in DOMAIN content : Visible(content, k)
    THEN LET first == CHOOSE a \in DOMAIN content :
                        Visible(content, a) /\ \A b \in 1..(a - 1) : ~Visible(content, b)
             last  == CHOOSE a \in DOMAIN content :
                        Visible(content, a) /\ \A b \in (a + 1)..Len(content) : ~Visible(content, b)
         IN  /\ Len(ParseParagraphs(html)) = 1
             /\ ParseParagraphs(html)[1] = SubSeq(BreaksAsSpaces(content), first, last)
    ELSE html = <<>>

\* a text with two single line breaks inside and one at its end was rendered
C10_Witness ==
  /\ pc = "rendered"
  /\ content = <<"A", "\n", "B", "\n", "C", "\n">>
  /\ html = <<"<", "p", ">", "A", " ", "B", " ", "C", "<", "/", "p", ">">>


(* ------------------------ rendering specification ---------------------- *)
\* the characters of the texts handed to escapeHTML
EscAlphabet == {"&", "<", ">", "\"", "'", "a"}

\* the posts handed to generateHTML: posts that differ in their title only, and
\* posts with an author, a body of several paragraphs and images
HtmlTitles == {<<"a">>, <<"<", "a", ">">>, <<"&", "l", "t", ";">>}
HtmlAuthors == {<<"a", "&", "'">>}
HtmlContents == {<<"<", "\n", "\n", "&", "\n", "\"">>, <<"\n">>}
HtmlImages == {<<>>, <<PathA, <<"\"", ">", ".", "g", "i", "f">>>>}
HtmlPosts ==
  [hash : {7}, title : HtmlTitles, author : {<<>>}, content : {<<"a">>},
   images : {<<>>}]
    \cup [hash : {7}, title : {<<"a">>}, author : HtmlAuthors,
          content : HtmlContents, images : HtmlImages]

InitHtml ==
  /\ variant = "blog"
  /\ repo = <<>>
  /\ disk = [p \in ImagePaths |-> "missing"]
  /\ data = "null"
  /\ log = <<>>
  /\ filtered = <<>>
  /\ idx = 1
  /\ slots = <<>>
  /\ settled = <<>>
  /\ writes = <<>>
  /\ copied = 0
  /\ console = {}
  /\ exitCode = NoExit
  /\ index = NoHtml
  /\ html = NoHtml
  /\ \/ /\ pc = "escape"
        /\ content \in SeqsUpTo(EscAlphabet, MaxEsc)
        /\ result = <<>>
     \/ /\ pc = "html"
        /\ content = <<>>
        /\ result \in SeqsUpTo(HtmlPosts, MaxPosts)

\* one call of escapeHTML
EscapeHTML ==
  /\ pc = "escape"
  /\ html' = escapeHTML(content)
  /\ pc' = "escaped"
  /\ UNCHANGED <<variant, repo, disk, data, log, filtered, idx, slots, settled,
                 result, writes, copied, console, exitCode, content, index>>

NextHtml ==
  \/ EscapeHTML
  \/ WriteIndex

SpecHtml == InitHtml /\ [][NextHtml]_vars


(* ======================= properties of generateHTML ==================== *)
\* the entity of a reserved character, the character itself otherwise
Entity(c) ==
  CASE c = "&"  -> <<"&", "a", "m", "p", ";">>
    [] c = "<"  -> <<"&", "l", "t", ";">>
    [] c = ">"  -> <<"&", "g", "t", ";">>
    [] c = "\"" -> <<"&", "q", "u", "o", "t", ";">>
    [] c = "'"  -> <<"&", "#", "0", "3", "9", ";">>
    [] OTHER    -> <<c>>

\* the text with each character replaced once, in one pass
Entities(str) == Flatten([k \in DOMAIN str |-> Entity(str[k])])

Reserved == {"&", "<", ">", "\"", "'"}

RECURSIVE Unescape(_)
\* what a reader of the document makes of an escaped text: each entity read
\* as its character, once, from left to right
Unescape(t) ==
  IF t = <<>> THEN <<>>
  ELSE IF \E c \in Reserved : startsWith(t, Entity(c))
  THEN LET c == CHOOSE x \in Reserved : startsWith(t, Entity(x))
       IN  <<c>> \o Unescape(SubSeq(t, Len(Entity(c)) + 1, Len(t)))
  ELSE <<Head(t)>> \o Unescape(Tail(t))

\* the least position from k on where the document holds character c, or
\* one past its end
Find(d, c, k) ==
  IF \E j \in k..Len(d) : d[j] = c
  THEN CHOOSE j \in k..Len(d) : d[j] = c /\ \A i \in k..(j - 1) : d[i] # c
  ELSE Len(d) + 1

RECURSIVE AttrValues(_, _)
\* the quoted attribute values of a tag, from position k on, unescaped
AttrValues(tag, k) ==
  LET open  == Find(tag, "\"", k)
      close == Find(tag, "\"", open + 1)
  IN  IF close > Len(tag) THEN <<>>
      ELSE <<Unescape(SubSeq(tag, open + 1, close - 1))>> \o AttrValues(tag, close + 1)

\* position k of the document opens a tag: it holds '<' and the bracket
\* before it, if any, is a '>'
TagOpen(d, k) ==
  /\ d[k] = "<"
  /\ \A j \in 1..(k - 1) :
       d[j] \in {"<", ">"} /\ (\A i \in (j + 1)..(k - 1) : d[i] \notin {"<", ">"})
         => d[j] = ">"

\* the tag that opens at position k: its attribute values, then the text
\* that follows it up to the next tag, unescaped
TagNodes(d, k) ==
  LET close == Find(d, ">", k)
      next  == Find(d, "<", close + 1)
  IN  AttrValues(SubSeq(d, k + 1, close - 1), 1)
        \o (IF next > close + 1 THEN <<Unescape(SubSeq(d, close + 1, next - 1))>>
            ELSE <<>>)

RECURSIVE FlattenRange(_, _, _)
\* the concatenation of f[lo], ..., f[hi]
FlattenRange(f, lo, hi) ==
  IF lo > hi THEN <<>>
  ELSE IF lo = hi THEN f[lo]
  ELSE LET mid == (lo + hi) \div 2
       IN  FlattenRange(f, lo, mid) \o FlattenRange(f, mid + 1, hi)

\* what a reader finds in the document: the attribute values of each tag
\* and the texts between the tags, unescaped, in order
Decode(d) ==
  (IF Find(d, "<", 1) > 1 THEN <<Unescape(SubSeq(d, 1, Find(d, "<", 1) - 1))>> ELSE <<>>)
    \o FlattenRange([k \in DOMAIN d |-> IF TagOpen(d, k) THEN TagNodes(d, k) ELSE <<>>],
                    1, Len(d))

\* a text node, when the text is not empty
TextNode(t) == IF t = <<>> THEN <<>> ELSE <<t>>

\* what the document of a post is to show: its title, author, commit number,
\* paragraphs and, for each image, the link and the picture
PostNodes(post) ==
  <<<<"p", "o", "s", "t">>>> \o TextNode(post.title)
    \o <<<<"m", "e", "t", "a">>, <<"a", "u", "t", "h", "o", "r">>>> \o TextNode(post.author)
    \o <<<<"c", "o", "m", "m", "i", "t">>, <<"#">> \o NumberToString(post.hash)>>
    \o <<<<"c", "o", "n", "t", "e", "n", "t">>>> \o ExpectedParagraphs(post.content)
    \o (IF post.images = <<>> THEN <<>>
        ELSE <<<<"i", "m", "a", "g", "e", "-", "g", "r", "i", "d">>>>
               \o Flatten([j \in DOMAIN post.images |->
                             << <<"i", "m", "a", "g", "e", "-", "i", "t", "e", "m">>,
                                post.images[j], <<"_", "b", "l", "a", "n", "k">>,
                                post.images[j] >>]))

DocumentNodes(posts) ==
  Join([k \in DOMAIN posts |-> PostNodes(posts[k])], <<<<"\n">>>>)
    \o << <<"G", "e", "n", "e", "r", "a", "t", "e", "d", " ", "f", "r", "o", "m", " ">>
            \o NumberToString(Len(posts))
            \o <<" ", "c", "o", "m", "m", "i", "t">>
            \o (IF Len(posts) = 1 THEN <<>> ELSE <<"s">>) >>

\* C11: escapeHTML returns its input with each of & < > " ' replaced by its
\* entity exactly once and no raw < > " ' left, and the document generateHTML
\* builds carries every title, author name, body paragraph and image path
\* escaped: read back, it shows exactly these texts.
C11_Escaped ==
  /\ pc = "escaped" =>
       /\ html = Entities(content)
       /\ \A k \in DOMAIN html : html[k] \notin {"<", ">", "\"", "'"}
       /\ Unescape(html) = content
  /\ pc = "done" /\ variant = "blog" => Decode(index) = DocumentNodes(result)

\* two posts were rendered: one whose title holds reserved characters, and
\* one whose author, content and image path hold them
C11_Witness ==
  /\ pc = "done"
  /\ Len(result) = 2
  /\ result[1].title = <<"<", "a", ">">>
  /\ result[2].author = <<"a", "&", "'">>
  /\ result[2].content = <<"<", "\n", "\n", "&", "\n", "\"">>
  /\ result[2].images # <<>>

RECURSIVE AssembledFrom(_, _, _, _)
\* the sequence a run assembles from the commits k, k + 1, ... of the
\* repository when it handles them one after the other: a function of the
\* variant, the commit list with its diffs, and the files on disk
AssembledFrom(v, commits, d, k) ==
  IF k > Len(commits) THEN <<>>
  ELSE (IF isIgnored(commits[k]) THEN <<>>
        ELSE IF v = "blog"
        THEN <<BlogPost(commits[k], k, getCommitImages(commits[k].diff))>>
        ELSE IF v = "flat"
        THEN FlatEntries(d, commits[k], k, getCommitImages(commits[k].diff))
        ELSE GalleryPush(d, commits[k], k))
         \o AssembledFrom(v, commits, d, k + 1)

\* C12: two runs on the same repository (same commit list, same diffs, same
\* files on disk) assemble the same sequence and write the same HTML,
\* whatever order the per-commit fetches complete in: the sequence getCommits
\* returns is the one the inputs alone determine, and the index.html of the
\* blog variant is generateHTML of that sequence.
C12_Deterministic ==
  /\ Returned => result = AssembledFrom(variant, repo, disk, 1)
  /\ pc = "done" /\ variant = "blog" =>
       index = generateHTML(AssembledFrom(variant, repo, disk, 1))

\* a blog run wrote index.html for two posts whose diffs had settled in the
\* reverse of their order in the log
C12_Witness ==
  /\ variant = "blog"
  /\ pc = "done"
  /\ index # NoHtml
  /\ Len(result) = 2
  /\ settled = <<2, 1>>

\* every per-commit fetch of getCommits has resolved
FetchesResolved ==
  IF variant = "blog" THEN DOMAIN slots = DOMAIN filtered
  ELSE idx = Len(filtered) + 1

\* the place of a file in the order in which main writes below dist/
WriteRank(f) ==
  IF f = GalleryJs THEN 1
  ELSE IF f = AvatarFile THEN 3
  ELSE IF f = IndexHtml THEN 4
  ELSE 2

\* the positions of the image copies among the writes
ImageWrites ==
  SelectIdx([a \in DOMAIN writes |-> WriteRank(writes[a]) = 2], 1)

\* C13: nothing is written below dist/ before getCommits has returned with
\* every per-commit fetch resolved; the writes then come one after the other
\* in a fixed order (gallery.js, the images in the order of the assembled
\* sequence, the avatar, index.html), each of the three other files at most
\* once, and a finished run has written index.html last; while the one
\* asynchronous write (the bundling of gallery.js) is pending nothing else
\* has been written.
C13_WritesInOrder ==
  /\ writes # <<>> => Returned /\ FetchesResolved
  /\ \A a, b \in DOMAIN writes :
       a < b => WriteRank(writes[a]) <= WriteRank(writes[b])
  /\ \E n \in 0..Len(ImageRefs(variant, result)) :
       [a \in DOMAIN ImageWrites |-> writes[ImageWrites[a]]]
         = CopyPrefix(disk, ImageRefs(variant, result), n)
  /\ \A f \in {GalleryJs, AvatarFile, IndexHtml} :
       Cardinality({a \in DOMAIN writes : writes[a] = f}) <= 1
  /\ pc = "build" => writes = <<>>
  /\ variant = "gallery" /\ pc \in {"copy", "avatar", "html", "done"} =>
       writes # <<>> /\ writes[1] = GalleryJs
  /\ variant # "gallery" => GalleryJs \notin Range(writes) /\ AvatarFile \notin Range(writes)
  /\ IndexHtml \in Range(writes) <=> pc = "done"
  /\ pc = "done" => writes[Len(writes)] = IndexHtml

\* a finished gallery run that wrote gallery.js, two images, the avatar and
\* index.html
C13_Witness ==
  /\ variant = "gallery"
  /\ pc = "done"
  /\ Len(writes) = 5
  /\ writes[2] # writes[3]
  /\ writes[4] = AvatarFile

====
